---- MODULE Spec2Model ----
(***************************************************************************)
(* CookieCutterMonster: the image -> boundary -> solid pipeline of         *)
(* services/imageProcessing.ts (processImage and its nested functions),    *)
(* driven by CookieCutterApp.handleInputChange and the input components.   *)
(*                                                                         *)
(* Units.  Contour areas are carried as area2 = 2 * (signed area), an      *)
(* integer (cv.contourArea returns multiples of 0.5).  thickness is in     *)
(* 0.1 mm, stroke widths and bevel sizes in 0.05 mm (so thickness/2 of the *)
(* code is the thickness number itself and thickness*3/2 is three times    *)
(* it), depth in mm, tolerance in 0.01 mm, size in mm.                     *)
(*                                                                         *)
(* JS arrays (contours, contourNumMap) are functions on 0..n-1, so that    *)
(* the code's indices are kept as they are.                                *)
(*                                                                         *)
(* pending holds the Image objects ClipartSelector.handleImageChange has   *)
(* created, call the arguments and the result of one call of a function    *)
(* that is studied on its own (the ring selection of                       *)
(* getScaledOutlineShape, getThreeVector).                                 *)
(***************************************************************************)
EXTENDS Integers, Sequences, FiniteSets, TLC

VARIABLES cv, cookieState, imgElement, closures, canvasOutput, downloads,
          lastEvent, nEvents, pending, call

vars == <<cv, cookieState, imgElement, closures, canvasOutput, downloads,
          lastEvent, nEvents, pending, call>>

(***************************************************************************)
(* Bounds of the model.                                                    *)
(***************************************************************************)
MaxContours == 3
MaxEvents == 4
NPix == 6
MaxPoints == 4
MaxNameLen == 3
MaxSelections == 2

NoImage == 0
NoCnt == [img |-> -1, idx |-> -1, area2 |-> 0, pos |-> 0]

(***************************************************************************)
(* Program constants.                                                      *)
(***************************************************************************)
DEFAULT_THICKNESS == 10
DEFAULT_DEPTH == 16
DEFAULT_TOLERANCE == 15
DEFAULT_BEVEL == FALSE
DEFAULT_ROUND_HANDLE == FALSE
DEFAULT_SIZE == 76
offset == 10
handleWidth == 84
handleThickness == 2

(***************************************************************************)
(* JS array helpers.                                                       *)
(***************************************************************************)
EmptyArr == [k \in {} |-> 0]
ArrLen(a) == Cardinality(DOMAIN a)
Push(a, v) == [k \in 0..ArrLen(a) |-> IF k < ArrLen(a) THEN a[k] ELSE v]
SeqToArr(s) == [k \in 0..(Len(s) - 1) |-> s[k + 1]]
Abs(n) == IF n < 0 THEN -n ELSE n

Pixels == 0..(NPix - 1)

(***************************************************************************)
(* services/cookieState (not among the sources): the CutterConfig store.   *)
(* update merges the fields present in a partial snapshot and keeps the    *)
(* last-known value of every absent field; get returns the whole state.    *)
(***************************************************************************)
CookieStateInit ==
    [imageSrc |-> NoImage, imageHeight |-> 0, imageWidth |-> 0,
     saveFileName |-> <<>>,
     thickness |-> DEFAULT_THICKNESS, depth |-> DEFAULT_DEPTH,
     tolerance |-> DEFAULT_TOLERANCE, cutterBevel |-> DEFAULT_BEVEL,
     handleRound |-> DEFAULT_ROUND_HANDLE, size |-> DEFAULT_SIZE]

CookieStateUpdate(state, detail) ==
    [f \in DOMAIN state |-> IF f \in DOMAIN detail THEN detail[f] ELSE state[f]]

(***************************************************************************)
(* The area filter of onImageLoad.  Areas are compared in units of         *)
(* 0.01 px^2: Area100 of a contour is 100 * |area| = 50 * |area2|, the     *)
(* cutoff (cols*rows)*.90 is 90*cols*rows and cutoff*.1 is a tenth of it.  *)
(***************************************************************************)
boundaryCountourAreaCutoff(cols, rows) == (cols * rows) * 90

Area100(area2) == 50 * area2

InAreaFilter_Inclusive(area100, cutoff) ==
    area100 >= cutoff \div 10 /\ area100 < cutoff

InAreaFilter(area100, cutoff) ==
    area100 > cutoff \div 10 /\ area100 < cutoff

(***************************************************************************)
(* cv.drawContours onto the label raster.  The raster is abstracted to a   *)
(* row of NPix cells of 5 px; a contour is a stroke centred on its cell    *)
(* pos, and a stroke of the given thickness covers the cells within        *)
(* (thickness/2)/5 of it.  The value stored is channel 0 of the scalar,    *)
(* saturated to a uchar.                                                   *)
(***************************************************************************)
Uchar(v) == IF v > 255 THEN 255 ELSE IF v < 0 THEN 0 ELSE v

StrokeRadius(thickness) == (thickness \div 2) \div 5

drawContours(map, cnt, label, thickness) ==
    [p \in Pixels |->
        IF Abs(p - cnt.pos) <= StrokeRadius(thickness) THEN Uchar(label) ELSE map[p]]

MatZeros == [p \in Pixels |-> 0]

(***************************************************************************)
(* First loop of onImageLoad (lines 165-191): signed area, sign folded     *)
(* into cw; candidates are painted with thickness 30 and pushed on         *)
(* contourNumMap; the largest contour below the cutoff is tracked.         *)
(***************************************************************************)
FirstLoopInit ==
    [contourMap |-> MatZeros, contourNumMap |-> EmptyArr, contIndex |-> 1,
     largestContour |-> 0, maxArea |-> 0, clockwise |-> TRUE]

LargestUpdate_NoCutoff(st, i, area, cw, cutoff) ==
    IF area > st.maxArea
    THEN [st EXCEPT !.largestContour = i, !.maxArea = area, !.clockwise = cw]
    ELSE st

LargestUpdate(st, i, area, cw, cutoff) ==
    IF area < cutoff /\ area > st.maxArea
    THEN [st EXCEPT !.largestContour = i, !.maxArea = area, !.clockwise = cw]
    ELSE st

CandidateUpdate(st, cnt, i, area, cutoff) ==
    IF InAreaFilter(area, cutoff)
    THEN [st EXCEPT !.contourMap = drawContours(st.contourMap, cnt, st.contIndex, 30),
                    !.contourNumMap = Push(st.contourNumMap, i),
                    !.contIndex = st.contIndex + 1]
    ELSE st

RECURSIVE FirstLoop(_, _, _, _)
FirstLoop(contours, cutoff, i, st) ==
    IF i >= ArrLen(contours) THEN st
    ELSE LET cnt == contours[i]
             signed == Area100(cnt.area2)
             cw == ~(signed < 0)
             area == IF signed < 0 THEN -signed ELSE signed
             st1 == CandidateUpdate(st, cnt, i, area, cutoff)
             st2 == LargestUpdate(st1, i, area, cw, cutoff)
         IN FirstLoop(contours, cutoff, i + 1, st2)

(***************************************************************************)
(* Second and third loops of onImageLoad (lines 192-216): the same filter  *)
(* on the unsigned area, repainting with a thinner stroke.                 *)
(***************************************************************************)
RECURSIVE ThinLoop_TraceIndex(_, _, _, _, _, _)
ThinLoop_TraceIndex(contours, cutoff, thickness, i, contIndex, map) ==
    IF i >= ArrLen(contours) THEN map
    ELSE LET cnt == contours[i]
             area == Area100(Abs(cnt.area2))
         IN IF InAreaFilter(area, cutoff)
            THEN ThinLoop_TraceIndex(contours, cutoff, thickness, i + 1, contIndex + 1,
                                     drawContours(map, cnt, i + 1, thickness))
            ELSE ThinLoop_TraceIndex(contours, cutoff, thickness, i + 1, contIndex, map)

RECURSIVE ThinLoop(_, _, _, _, _, _)
ThinLoop(contours, cutoff, thickness, i, contIndex, map) ==
    IF i >= ArrLen(contours) THEN map
    ELSE LET cnt == contours[i]
             area == Area100(Abs(cnt.area2))
         IN IF InAreaFilter(area, cutoff)
            THEN ThinLoop(contours, cutoff, thickness, i + 1, contIndex + 1,
                          drawContours(map, cnt, contIndex, thickness))
            ELSE ThinLoop(contours, cutoff, thickness, i + 1, contIndex, map)

(***************************************************************************)
(* getScaledOutlineShape: the outline is determined by the contour, the    *)
(* stroke width, the raster margin walloffset = ceil((maxOff + 1) * 12)    *)
(* (maxOff in 0.05 mm, so (maxOff + 20) * 12 / 20 rounded up), the target  *)
(* size and the point tolerance.                                           *)
(***************************************************************************)
CeilDiv(a, b) == (a + b - 1) \div b

getScaledOutlineShape(cnt, width, maxBoundaryOffetWidth, maxDesiredOut, tol) ==
    [cnt |-> cnt,
     lineThickness |-> 10 * width,
     walloffset |-> CeilDiv((maxBoundaryOffetWidth + 20) * 12, 20),
     rasterSize |-> maxDesiredOut * 10
                      + CeilDiv((maxBoundaryOffetWidth + 20) * 12, 20) * 2,
     maxDesiredOut |-> maxDesiredOut,
     tol |-> tol]

(***************************************************************************)
(* The contour selection of getScaledOutlineShape (lines 427-454) on the   *)
(* contours cv.findContours traces on the ring raster, given by their      *)
(* unsigned areas (as area2) in trace order.  The cutoff                   *)
(* (dst.cols * dst.rows) * .95 is in the units of Area100.  contours.get   *)
(* of an index the vector does not have yields undefined, and              *)
(* getThreeVector's cnt.rows on it throws a TypeError.  The shape always   *)
(* gets one hole, the points of contours.get(otherContour).                *)
(***************************************************************************)
ringCutoff(cols, rows) == (cols * rows) * 95

RingLoopInit == [largestContour |-> 1, otherContour |-> 0, maxArea |-> 0]

RingUpdate(st, i, area, cutoff) ==
    IF area > st.maxArea /\ area < cutoff
    THEN [largestContour |-> i, otherContour |-> st.largestContour, maxArea |-> area]
    ELSE st

RECURSIVE RingLoop(_, _, _, _)
RingLoop(areas2, cutoff, i, st) ==
    IF i >= ArrLen(areas2) THEN st
    ELSE RingLoop(areas2, cutoff, i + 1,
                  RingUpdate(st, i, Area100(areas2[i]), cutoff))

RingOutline(areas2, cols, rows) ==
    LET st == RingLoop(areas2, ringCutoff(cols, rows), 0, RingLoopInit)
    IN IF st.largestContour \in DOMAIN areas2 /\ st.otherContour \in DOMAIN areas2
       THEN [error |-> "none", outer |-> st.largestContour,
             holes |-> <<st.otherContour>>]
       ELSE [error |-> "TypeError", outer |-> st.largestContour,
             holes |-> <<st.otherContour>>]

(***************************************************************************)
(* getThreeVector(cnt, .1, tolerace): cnt is the array of the contour's    *)
(* points <<x, y>> in raster pixels.  Scaled coordinates and the tolerance *)
(* are in 0.01 mm, so the scale factor .1 is 10 and the initial            *)
(* lastX = lastY = -1000 is -100000.  Arithmetic is exact; the code's      *)
(* doubles can differ from it only where a difference equals the           *)
(* tolerance.                                                              *)
(***************************************************************************)
scaleF == 10
lastInit == -100000

KeepPoint_BothAxes(lastX, lastY, currentX, currentY, tolerace) ==
    /\ lastX + tolerace < currentX \/ lastX - tolerace > currentX
    /\ lastY + tolerace < currentY \/ lastY - tolerace > currentY

KeepPoint(lastX, lastY, currentX, currentY, tolerace) ==
    \/ lastX + tolerace < currentX
    \/ lastX - tolerace > currentX
    \/ lastY + tolerace < currentY
    \/ lastY - tolerace > currentY

ThreeVectorInit == [cPoints |-> EmptyArr, lastX |-> lastInit, lastY |-> lastInit]

ThreeVectorStep_ComparesPrevious(st, currentX, currentY, tolerace) ==
    IF KeepPoint(st.lastX, st.lastY, currentX, currentY, tolerace)
    THEN [cPoints |-> Push(st.cPoints, <<currentX, currentY>>),
          lastX |-> currentX, lastY |-> currentY]
    ELSE [st EXCEPT !.lastX = currentX, !.lastY = currentY]

ThreeVectorStep(st, currentX, currentY, tolerace) ==
    IF KeepPoint(st.lastX, st.lastY, currentX, currentY, tolerace)
    THEN [cPoints |-> Push(st.cPoints, <<currentX, currentY>>),
          lastX |-> currentX, lastY |-> currentY]
    ELSE st

RECURSIVE ThreeVectorLoop(_, _, _, _, _)
ThreeVectorLoop(cnt, scale, tolerace, i, st) ==
    IF i >= ArrLen(cnt) THEN st
    ELSE ThreeVectorLoop(cnt, scale, tolerace, i + 1,
                         ThreeVectorStep(st, cnt[i][1] * scale, cnt[i][2] * scale,
                                         tolerace))

getThreeVector(cnt, scale, tolerace) ==
    ThreeVectorLoop(cnt, scale, tolerace, 0, ThreeVectorInit).cPoints

(***************************************************************************)
(* generateSTL: extrusion depths, bevel thicknesses and z translations are *)
(* in 0.1 mm, so height/2 of the code is 5 * depth and height is           *)
(* 10 * depth; bevel sizes are in 0.05 mm like the stroke widths.  The     *)
(* scene is emptied, then the merged mesh and a light are added.           *)
(***************************************************************************)
Extrude(shape, settings, z) == [shape |-> shape, settings |-> settings, z |-> z]

(* Lines 323-342: the extrusions of the cutter wall, in merge order. *)
cutterMeshes_BaseFromWall(bevelCutter, outShape, outShape2, settings, settings2, height) ==
    IF bevelCutter
    THEN <<Extrude(outShape, settings2, 0),
           Extrude(outShape, settings, 5 * height)>>
    ELSE <<Extrude(outShape, settings2, 0)>>

cutterMeshes(bevelCutter, outShape, outShape2, settings, settings2, height) ==
    IF bevelCutter
    THEN <<Extrude(outShape2, settings2, 0),
           Extrude(outShape, settings, 5 * height)>>
    ELSE <<Extrude(outShape, settings2, 0)>>

(* Line 315: the outline of the handle. *)
handleOutline_WallWide(cnt, width, cookieSize, tolerance) ==
    getScaledOutlineShape(cnt, handleWidth + width, handleWidth, cookieSize, tolerance)

handleOutline(cnt, width, cookieSize, tolerance) ==
    getScaledOutlineShape(cnt, handleWidth, handleWidth, cookieSize, tolerance)

MergedMesh(cnt, cs) ==
    LET height == cs.depth
        width == cs.thickness
        tolerance == cs.tolerance
        bevelCutter == cs.cutterBevel
        handleRound == cs.handleRound
        cookieSize == cs.size
        extrudeSettings ==
            [steps |-> 1, depth |-> 0, bevelEnabled |-> TRUE,
             bevelThickness |-> 5 * height, bevelSize |-> width]
        extrudeSettings2 ==
            [steps |-> 1, depth |-> IF ~bevelCutter THEN 10 * height ELSE 5 * height,
             bevelEnabled |-> FALSE, bevelThickness |-> 0, bevelSize |-> 0]
        handleExtrudeSettings ==
            [steps |-> 1, depth |-> 10 * handleThickness, bevelEnabled |-> handleRound,
             bevelThickness |-> 6, bevelSize |-> 12]
        outShape == getScaledOutlineShape(cnt, width, handleWidth, cookieSize, tolerance)
        outShape2 == getScaledOutlineShape(cnt, width * 3, handleWidth, cookieSize, tolerance)
        handleoutShape == handleOutline(cnt, width, cookieSize, tolerance)
        cutter == cutterMeshes(bevelCutter, outShape, outShape2, extrudeSettings,
                               extrudeSettings2, height)
    IN [type |-> "Mesh",
        pieces |-> cutter \o <<Extrude(handleoutShape, handleExtrudeSettings, 0)>>]

PointLight == [type |-> "PointLight", pieces |-> <<>>]

generateSTL_NoClear(scene, cnt, cs) ==
    scene \o <<MergedMesh(cnt, cs), PointLight>>

generateSTL(scene, cnt, cs) ==
    <<MergedMesh(cnt, cs), PointLight>>

(***************************************************************************)
(* STLExporter.parse(scene): the meshes of the scene, in order.            *)
(***************************************************************************)
IsMesh(child) == child.type = "Mesh"

exporterParse(scene) == SelectSeq(scene, IsMesh)

(***************************************************************************)
(* File names are sequences of one-character strings.                      *)
(* handleImageChange strips the extension with /\.[^/.]+$/ and             *)
(* saveTextAsFile replaces every character outside [a-zA-Z0-9_-] by "_".   *)
(***************************************************************************)
SafeChars ==
    {"a","b","c","d","e","f","g","h","i","j","k","l","m","n","o","p","q","r","s",
     "t","u","v","w","x","y","z","A","B","C","D","E","F","G","H","I","J","K","L",
     "M","N","O","P","Q","R","S","T","U","V","W","X","Y","Z","0","1","2","3","4",
     "5","6","7","8","9","_","-"}

Sanitize_FirstOnly(name) ==
    [k \in DOMAIN name |->
        IF name[k] \notin SafeChars /\ \A j \in 1..(k - 1) : name[j] \in SafeChars
        THEN "_" ELSE name[k]]

Sanitize(name) == [k \in DOMAIN name |-> IF name[k] \in SafeChars THEN name[k] ELSE "_"]

ExtMatchAt(name, k) ==
    /\ name[k] = "."
    /\ k < Len(name)
    /\ \A j \in (k + 1)..Len(name) : name[j] \notin {"/", "."}

StripExt(name) ==
    IF \E k \in 1..Len(name) : ExtMatchAt(name, k)
    THEN SubSeq(name, 1, (CHOOSE k \in 1..Len(name) : ExtMatchAt(name, k)) - 1)
    ELSE name

(***************************************************************************)
(* Images handed to the pipeline: an id (the blob URL), the file name, the *)
(* decoded dimensions and the contours cv.findContours traces on the       *)
(* padded, thresholded raster, in trace order.                             *)
(***************************************************************************)
Cnt(a2, pos) == [area2 |-> a2, pos |-> pos]

Catalogue ==
    { [id |-> 1, name |-> <<"a", "/", "b", ".", "p">>, width |-> 30, height |-> 20,
       traced |-> SeqToArr(<<Cnt(3900, 0), Cnt(-2000, 1), Cnt(400, 4)>>)],
      [id |-> 2, name |-> <<"c", "-", "1">>, width |-> 30, height |-> 20,
       traced |-> SeqToArr(<<Cnt(40, 2), Cnt(2400, 1), Cnt(-380, 0)>>)],
      [id |-> 3, name |-> <<"n", ".", "p">>, width |-> 30, height |-> 20,
       traced |-> SeqToArr(<<Cnt(3900, 0), Cnt(40, 3)>>)],
      [id |-> 4, name |-> <<"z">>, width |-> 0, height |-> 0,
       traced |-> SeqToArr(<<Cnt(800, 0)>>)] }

ContoursGet(image, i) ==
    [img |-> image.id, idx |-> i,
     area2 |-> image.traced[i].area2, pos |-> image.traced[i].pos]

MatVector(image) == [i \in DOMAIN image.traced |-> ContoursGet(image, i)]

(***************************************************************************)
(* The candidates outlined in blue on the displayed raster, and imshow.    *)
(***************************************************************************)
BlueOutlined(contours, cutoff) ==
    {i \in DOMAIN contours : InAreaFilter(Area100(Abs(contours[i].area2)), cutoff)}

BlankCanvas == [image |-> NoImage, of |-> EmptyArr, blue |-> {}, red |-> -1]

Displayed(elem, contours, cutoff, red) ==
    [image |-> elem.src, of |-> contours,
     blue |-> BlueOutlined(contours, cutoff), red |-> red]

(***************************************************************************)
(* processImage up to the end of onImageLoad: the closure of one call.     *)
(* elem is the #imageSrc element after lines 51-52.                        *)
(***************************************************************************)
Classify(contours, cutoff) ==
    LET st == FirstLoop(contours, cutoff, 0, FirstLoopInit)
        map2 == ThinLoop(contours, cutoff, 10, 0, 1, st.contourMap)
        map3 == ThinLoop(contours, cutoff, 3, 0, 1, map2)
    IN [st EXCEPT !.contourMap = map3]

onImageLoad(elem, image, saveFilename, cs) ==
    LET cols == elem.width + 2 * offset
        rows == elem.height + 2 * offset
        contours == MatVector(image)
        cutoff == boundaryCountourAreaCutoff(cols, rows)
        st == Classify(contours, cutoff)
        cnt == contours[st.largestContour]
    IN [saveFilename |-> saveFilename,
        contours |-> contours,
        contourMap |-> st.contourMap,
        contourNumMap |-> st.contourNumMap,
        lastCnt |-> cnt,
        scene |-> generateSTL(<<>>, cnt, cs)]

onImageLoadShown(elem, image) ==
    LET cols == elem.width + 2 * offset
        rows == elem.height + 2 * offset
        contours == MatVector(image)
        cutoff == boundaryCountourAreaCutoff(cols, rows)
    IN Displayed(elem, contours, cutoff, Classify(contours, cutoff).largestContour)

(***************************************************************************)
(* updateContourSelection(x) of one closure c: the new closure and what it *)
(* shows on the canvas (canvas unchanged when the label is 0).  The raster *)
(* it redraws is read from the #imageSrc element as it is now.             *)
(***************************************************************************)
SelectedIndex_NoMap(c, x) == c.contourMap[x] - 1

SelectedIndex(c, x) == c.contourNumMap[c.contourMap[x] - 1]

updateContourSelection(c, x, elem, cs) ==
    IF c.contourMap[x] # 0
    THEN LET co == SelectedIndex(c, x)
             cnt == c.contours[co]
         IN [c EXCEPT !.lastCnt = cnt, !.scene = generateSTL(c.scene, cnt, cs)]
    ELSE c

updateContourSelectionShown(c, x, elem, canvas) ==
    IF c.contourMap[x] # 0
    THEN Displayed(elem, c.contours,
                   boundaryCountourAreaCutoff(elem.width + 2 * offset,
                                              elem.height + 2 * offset),
                   SelectedIndex(c, x))
    ELSE canvas

(***************************************************************************)
(* Every processImage call adds one more click listener to the canvas and  *)
(* one more to the export button (lines 57-66, 107-108); a click runs the  *)
(* listeners of all calls so far, in registration order.                   *)
(***************************************************************************)
RECURSIVE CanvasAfterClick(_, _, _, _, _)
CanvasAfterClick(cls, k, x, elem, canvas) ==
    IF k > Len(cls) THEN canvas
    ELSE CanvasAfterClick(cls, k + 1, x, elem,
                          updateContourSelectionShown(cls[k], x, elem, canvas))

(***************************************************************************)
(* saveTextAsFile of one closure c: rebuild, serialize, hand to the host.  *)
(***************************************************************************)
Stl == <<".", "s", "t", "l">>

saveTextAsFileScene_NoRebuild(c, cs) == c.scene

saveTextAsFileScene(c, cs) == generateSTL(c.scene, c.lastCnt, cs)

saveTextAsFile(c, cs) ==
    [download |-> Sanitize(c.saveFilename) \o Stl,
     textToWrite |-> exporterParse(saveTextAsFileScene(c, cs))]

(***************************************************************************)
(* animate of one closure c: one frame of its redraw loop.  It asks for    *)
(* the next frame, updates the controls and renders c's scene; the body of *)
(* camera_debug is commented out.  onImageLoad and every selection call    *)
(* animate once more, and all the chains of frames of a closure do the     *)
(* same.                                                                   *)
(***************************************************************************)
animate_Rebuilds(c, cs) == [c EXCEPT !.scene = generateSTL(c.scene, c.lastCnt, cs)]

animate(c, cs) == c

(***************************************************************************)
(* The events of the UI.                                                   *)
(***************************************************************************)
ThicknessOptions == {10, 20}
DepthOptions == {16, 20}
ToleranceOptions == {15, 30}
SizeValues == SeqToArr(<<51, 64, 76, 89, 101>>)
SliderOptions == {2, 3}

ChangeTypes == {"THICKNESS", "DEPTH", "FILE_SIZE", "IS_BEVELED", "HAS_ROUND_EDGES"}
RenderedChangeTypes == {"THICKNESS", "DEPTH", "FILE_SIZE"}

OptionsOf(changeType) ==
    CASE changeType = "THICKNESS" -> ThicknessOptions
      [] changeType = "DEPTH" -> DepthOptions
      [] changeType = "FILE_SIZE" -> ToleranceOptions
      [] OTHER -> BOOLEAN

handleChangeDetail(changeType, v) ==
    CASE changeType = "THICKNESS" -> [thickness |-> v]
      [] changeType = "DEPTH" -> [depth |-> v]
      [] changeType = "FILE_SIZE" -> [tolerance |-> v]
      [] changeType = "IS_BEVELED" -> [cutterBevel |-> v]
      [] changeType = "HAS_ROUND_EDGES" -> [handleRound |-> v]

(***************************************************************************)
(* ClipartSelector.handleImageChange builds the event from an Image whose  *)
(* src was set in the statement before: its width and height still read 0. *)
(* img.onload overwrites the two dimensions with the decoded ones and      *)
(* dispatches the event.                                                   *)
(***************************************************************************)
NewImageEventDetail(image) ==
    [imageSrc |-> image.id, imageHeight |-> 0, imageWidth |-> 0,
     saveFileName |-> StripExt(image.name)]

OnloadDetail_Stale(detail, image) == detail

OnloadDetail(detail, image) ==
    [detail EXCEPT !.imageHeight = image.height, !.imageWidth = image.width]

handleImageChangeDetail(image) == OnloadDetail(NewImageEventDetail(image), image)

Event(kind, arg) ==
    [kind |-> kind, arg |-> arg, prev |-> lastEvent.kind,
     rep |-> lastEvent.kind = kind /\ lastEvent.arg = arg, error |-> "none"]

NoCall == [fn |-> "none"]

InitApp ==
    /\ cv = FALSE
    /\ cookieState = CookieStateInit
    /\ imgElement = [src |-> NoImage, width |-> 0, height |-> 0]
    /\ closures = <<>>
    /\ canvasOutput = BlankCanvas
    /\ downloads = <<>>
    /\ lastEvent = [kind |-> "none", arg |-> 0, prev |-> "none", rep |-> FALSE,
                    error |-> "none"]
    /\ nEvents = 0
    /\ pending = <<>>

Init == InitApp /\ call = NoCall

render_Always ==
    {"clipart-selector", "cookie-size", "cookie-inputs", "exportASCII", "canvasOutput"}

(* CookieCutterApp.render: null while cv is null, and then the page has no *)
(* component, button or canvas an event could be sent to.                  *)
render ==
    IF ~cv THEN {}
    ELSE {"clipart-selector", "cookie-size", "cookie-inputs", "exportASCII", "canvasOutput"}

(* The guard of getCV: a falsy library makes the callback throw. *)
getCVError(lib) ==
    IF ~lib THEN "couldn't load the opencv library" ELSE "none"

getCVAssign_AcceptsFalsy(lib) == TRUE

(* getCV past its guard: this.cv = cv. *)
getCVAssign(lib) == IF getCVError(lib) = "none" THEN TRUE ELSE cv

(* CookieCutterApp.getCV: the script loader's callback, run from           *)
(* firstUpdated; cv stays null when the callback throws.                   *)
getCV(lib) ==
    /\ ~cv
    /\ cv' = getCVAssign(lib)
    /\ lastEvent' = [Event("getCV", IF lib THEN 1 ELSE 0) EXCEPT !.error = getCVError(lib)]
    /\ UNCHANGED <<cookieState, imgElement, closures, canvasOutput, downloads,
                   nEvents, pending, call>>

OrOne_Keeps(v) == v

(* processImage: imgElement.height = imgElement.height || 1, and the same  *)
(* for the width, before onImageLoad reads or allocates any raster.        *)
OrOne(v) == IF v = 0 THEN 1 ELSE v

(* image-changed -> handleInputChange -> processImage -> onImageLoad, with *)
(* raster the picture cv.imread finds in the #imageSrc element.            *)
DispatchRead(detail, image, raster) ==
    LET cs == CookieStateUpdate(cookieState, detail)
        elem == [src |-> detail.imageSrc,
                 width |-> OrOne(detail.imageWidth),
                 height |-> OrOne(detail.imageHeight)]
    IN /\ render # {}
       /\ nEvents < MaxEvents
       /\ cookieState' = cs
       /\ imgElement' = elem
       /\ closures' = Append(closures, onImageLoad(elem, raster, detail.saveFileName, cs))
       /\ canvasOutput' = onImageLoadShown(elem, raster)
       /\ downloads' = <<>>
       /\ lastEvent' = Event("image", image.id)
       /\ nEvents' = nEvents + 1
       /\ UNCHANGED cv

(* The same with the element showing the picture of the event's source.   *)
Dispatch(detail, image) ==
    /\ DispatchRead(detail, image, image)
    /\ UNCHANGED call

(* A file selection and the decode of its image, taken as one step. *)
ImageChanged(image) ==
    /\ Dispatch(handleImageChangeDetail(image), image)
    /\ UNCHANGED pending

(* cookie-input-changed -> handleInputChange: the detail carries no        *)
(* imageSrc, so the handler returns after CookieState.update.              *)
handleInputChange(kind, arg, detail) ==
    /\ render # {}
    /\ nEvents < MaxEvents
    /\ cookieState' = CookieStateUpdate(cookieState, detail)
    /\ downloads' = <<>>
    /\ lastEvent' = Event(kind, arg)
    /\ nEvents' = nEvents + 1
    /\ UNCHANGED <<cv, imgElement, closures, canvasOutput, pending>>

InputChanged(kind, arg, detail) ==
    /\ handleInputChange(kind, arg, detail)
    /\ UNCHANGED call

(* CookieInputs.handleChange for the selects that render() wires. *)
HandleChange(changeType, v) ==
    InputChanged("config", <<changeType, v>>, handleChangeDetail(changeType, v))

(* CookieSize.handleSliderChange. *)
HandleSliderChange(index) ==
    InputChanged("config", <<"SIZE", index>>, [size |-> SizeValues[index]])

(* A click on #canvasOutput at raster cell x. *)
CanvasClick(x) ==
    /\ render # {}
    /\ nEvents < MaxEvents
    /\ closures' = [k \in DOMAIN closures |->
                       updateContourSelection(closures[k], x, imgElement, cookieState)]
    /\ canvasOutput' = CanvasAfterClick(closures, 1, x, imgElement, canvasOutput)
    /\ downloads' = <<>>
    /\ lastEvent' = Event("click", x)
    /\ nEvents' = nEvents + 1
    /\ UNCHANGED <<cv, cookieState, imgElement, pending, call>>

(* A click on #exportASCII. *)
ExportClick ==
    /\ render # {}
    /\ nEvents < MaxEvents
    /\ closures' = [k \in DOMAIN closures |->
                       [closures[k] EXCEPT !.scene = saveTextAsFileScene(closures[k], cookieState)]]
    /\ downloads' = [k \in DOMAIN closures |-> saveTextAsFile(closures[k], cookieState)]
    /\ lastEvent' = Event("export", 0)
    /\ nEvents' = nEvents + 1
    /\ UNCHANGED <<cv, cookieState, imgElement, canvasOutput, pending, call>>

(* A frame of the redraw loop of the k-th processImage call. *)
AnimateFrame(k) ==
    /\ nEvents < MaxEvents
    /\ k \in DOMAIN closures
    /\ closures' = [closures EXCEPT ![k] = animate(closures[k], cookieState)]
    /\ downloads' = <<>>
    /\ lastEvent' = Event("frame", k)
    /\ nEvents' = nEvents + 1
    /\ UNCHANGED <<cv, cookieState, imgElement, canvasOutput, pending, call>>

Next ==
    \/ \E lib \in BOOLEAN : getCV(lib)
    \/ \E image \in Catalogue : ImageChanged(image)
    \/ \E changeType \in RenderedChangeTypes :
          \E v \in OptionsOf(changeType) : HandleChange(changeType, v)
    \/ \E index \in SliderOptions : HandleSliderChange(index)
    \/ \E x \in Pixels : CanvasClick(x)
    \/ ExportClick
    \/ \E k \in 1..MaxEvents : AnimateFrame(k)

Spec == Init /\ [][Next]_vars

(***************************************************************************)
(* The classifier on its own: one image load, the image drawn from every   *)
(* trace of at most MaxContours contours over areas on both sides of and   *)
(* exactly on the two cutoffs, in every order.                             *)
(***************************************************************************)
ClassifyAreas2 == {-2000, 40, 360, 361, 3599, 3600}
ClassifyDims == {<<30, 20>>, <<10, 10>>, <<0, 0>>, <<0, 20>>}

TracePos(i) == (2 * i + 1) % NPix

AllImages ==
    { [id |-> 9, name |-> <<"x">>, width |-> d[1], height |-> d[2],
       traced |-> [i \in DOMAIN f |-> Cnt(f[i], TracePos(i))]] :
         d \in ClassifyDims,
         f \in UNION { [0..(n - 1) -> ClassifyAreas2] : n \in 1..MaxContours } }

ClassifyNext ==
    \/ \E lib \in BOOLEAN : getCV(lib)
    \/ \E image \in AllImages : closures = <<>> /\ ImageChanged(image)

SpecClassify == Init /\ [][ClassifyNext]_vars

(***************************************************************************)
(* The selector on its own: file selections, and the load and error events *)
(* of the Image objects they created, in any order.  A load event runs     *)
(* img.onload, which dispatches image-changed to handleInputChange; an     *)
(* error event has no handler.                                             *)
(***************************************************************************)
NewImage(image) ==
    /\ render # {}
    /\ Len(pending) < MaxSelections
    /\ pending' = Append(pending, [file |-> image, state |-> "loading",
                                   detail |-> NewImageEventDetail(image),
                                   dispatched |-> 0])
    /\ UNCHANGED <<cv, cookieState, imgElement, closures, canvasOutput, downloads,
                   lastEvent, nEvents>>

HandleImageChange(image) ==
    /\ NewImage(image)
    /\ UNCHANGED call

ImgOnload(j) ==
    /\ j \in DOMAIN pending
    /\ pending[j].state = "loading"
    /\ LET detail == OnloadDetail(pending[j].detail, pending[j].file)
       IN /\ Dispatch(detail, pending[j].file)
          /\ pending' = [pending EXCEPT ![j].state = "loaded",
                                        ![j].detail = detail,
                                        ![j].dispatched = @ + 1]

ImgOnerror(j) ==
    /\ j \in DOMAIN pending
    /\ pending[j].state = "loading"
    /\ pending' = [pending EXCEPT ![j].state = "broken"]
    /\ UNCHANGED <<cv, cookieState, imgElement, closures, canvasOutput, downloads,
                   lastEvent, nEvents, call>>

DecodeNext ==
    \/ \E lib \in BOOLEAN : getCV(lib)
    \/ \E image \in Catalogue : HandleImageChange(image)
    \/ \E j \in 1..MaxSelections : ImgOnload(j)
    \/ \E j \in 1..MaxSelections : ImgOnerror(j)

SpecDecode == Init /\ [][DecodeNext]_vars

(***************************************************************************)
(* The three input handlers called with events of any shape: ev tells      *)
(* which of the event, its target and the target's file list are there.    *)
(* Each handler tests the shape first and throws before it touches         *)
(* anything; call records the handler, the event and the parity of the    *)
(* number of calls.                                                        *)
(***************************************************************************)
EventShapes ==
    {ev \in [e : BOOLEAN, target : BOOLEAN, files : BOOLEAN] :
        (ev.target => ev.e) /\ (ev.files => ev.target)}

handleImageChangeError(ev) ==
    IF ~ev.e \/ ~ev.target \/ ~ev.files THEN "image change target is null" ELSE "none"

handleSliderChangeError(ev) ==
    IF ~ev.e \/ ~ev.target THEN "error with size input" ELSE "none"

handleChangeError_Silent(ev) == "none"

handleChangeError(ev) ==
    IF ~ev.e \/ ~ev.target THEN "error with thickness input" ELSE "none"

Throws(fn, error) ==
    /\ render # {}
    /\ nEvents < MaxEvents
    /\ lastEvent' = [Event("throw", fn) EXCEPT !.error = error]
    /\ nEvents' = nEvents + 1
    /\ downloads' = <<>>
    /\ UNCHANGED <<cv, cookieState, imgElement, closures, canvasOutput, pending>>

Called(fn, ev) ==
    call' = [fn |-> fn, ev |-> ev, n |-> IF call = NoCall THEN 0 ELSE 1 - call.n]

handleImageChange(ev, image) ==
    /\ Called("handleImageChange", ev)
    /\ IF handleImageChangeError(ev) # "none"
          THEN Throws("handleImageChange", handleImageChangeError(ev))
          ELSE NewImage(image)

handleSliderChange(ev, index) ==
    /\ Called("handleSliderChange", ev)
    /\ IF handleSliderChangeError(ev) # "none"
          THEN Throws("handleSliderChange", handleSliderChangeError(ev))
          ELSE handleInputChange("config", <<"SIZE", index>>, [size |-> SizeValues[index]])

handleChange(ev, changeType, v) ==
    /\ Called("handleChange", ev)
    /\ IF handleChangeError(ev) # "none"
          THEN Throws("handleChange", handleChangeError(ev))
          ELSE handleInputChange("config", <<changeType, v>>, handleChangeDetail(changeType, v))

MalformedImages == {image \in Catalogue : image.id = 1}

MalformedNext ==
    \/ \E lib \in BOOLEAN : getCV(lib)
    \/ \E ev \in EventShapes, image \in MalformedImages : handleImageChange(ev, image)
    \/ \E j \in 1..MaxSelections : ImgOnload(j)
    \/ \E ev \in EventShapes, index \in SliderOptions : handleSliderChange(ev, index)
    \/ \E ev \in EventShapes, changeType \in RenderedChangeTypes :
          \E v \in OptionsOf(changeType) : handleChange(ev, changeType, v)

SpecMalformed == Init /\ [][MalformedNext]_vars

(***************************************************************************)
(* The #imageSrc element on its own.  handleInputChange assigns the        *)
(* element's src and calls processImage in the same task, and cv.imread    *)
(* draws the element as it is at that moment.  The platform makes the new  *)
(* picture available at once only if it still holds the decoded file in    *)
(* its list of available images (the selector's Image object loaded the    *)
(* same URL), which it may drop at any time; otherwise the element goes on *)
(* showing its previous picture, or none, until its own load event, for    *)
(* which the app has no listener.  call holds the picture the element      *)
(* shows and the one it has requested.  A raster with no picture drawn is  *)
(* uniform: the threshold turns it white and one contour, the frame, is    *)
(* traced.                                                                 *)
(***************************************************************************)
NoPicture ==
    [id |-> NoImage, name |-> <<>>, width |-> 0, height |-> 0, traced |-> EmptyArr]

imread(picture, width, height) ==
    IF picture.id = NoImage
    THEN [picture EXCEPT !.traced =
            SeqToArr(<<Cnt(2 * (width + 2 * offset - 1) * (height + 2 * offset - 1), 0)>>)]
    ELSE picture

ElementShows == IF call = NoCall THEN NoPicture ELSE call.current

ReadImageChanged(image, available) ==
    LET detail == handleImageChangeDetail(image)
        picture == IF available THEN image ELSE ElementShows
    IN /\ DispatchRead(detail, image,
                       imread(picture, OrOne(detail.imageWidth), OrOne(detail.imageHeight)))
       /\ call' = [fn |-> "img", current |-> picture, request |-> image]
       /\ UNCHANGED pending

ElementLoad ==
    /\ call # NoCall
    /\ call.current # call.request
    /\ call' = [call EXCEPT !.current = call.request]
    /\ UNCHANGED <<cv, cookieState, imgElement, closures, canvasOutput, downloads,
                   lastEvent, nEvents, pending>>

ReadImages == {image \in Catalogue : image.id \in {1, 2, 3}}

ReadNext ==
    \/ \E lib \in BOOLEAN : getCV(lib)
    \/ \E image \in ReadImages, available \in BOOLEAN : ReadImageChanged(image, available)
    \/ ElementLoad

SpecRead == Init /\ [][ReadNext]_vars

(***************************************************************************)
(* The export file name on its own: one load of a file whose base name is  *)
(* any string of at most MaxNameLen characters over safe and unsafe        *)
(* characters, or "A/B..c", followed by exports.                           *)
(***************************************************************************)
NameChars == {"A", "c", "9", "_", "-", "/", ".", " "}
ExampleBase == <<"A", "/", "B", ".", ".", "c">>

BaseNames ==
    UNION { [1..n -> NameChars] : n \in 0..MaxNameLen } \cup {ExampleBase}

NamedImages ==
    { [id |-> 8, name |-> b \o <<".", "p">>, width |-> 30, height |-> 20,
       traced |-> SeqToArr(<<Cnt(3900, 0), Cnt(-2000, 1)>>)] : b \in BaseNames }

NameNext ==
    \/ \E lib \in BOOLEAN : getCV(lib)
    \/ \E image \in NamedImages : closures = <<>> /\ ImageChanged(image)
    \/ ExportClick

SpecName == Init /\ [][NameNext]_vars

(***************************************************************************)
(* The assembler on its own: one load under every configuration of a few   *)
(* wall thicknesses, depths and sizes, with and without the bevel and the  *)
(* round handle (CookieState holds the two flags whether or not a control  *)
(* sets them).                                                             *)
(***************************************************************************)
AssembleThickness == {7, 10, 20}
AssembleDepth == {12, 16}
AssembleSize == {76, 89}

AssembleConfigs ==
    { [CookieStateInit EXCEPT !.thickness = t, !.depth = d, !.size = z,
                              !.cutterBevel = b, !.handleRound = r] :
        t \in AssembleThickness, d \in AssembleDepth, z \in AssembleSize,
        b \in BOOLEAN, r \in BOOLEAN }

InitAssemble ==
    /\ cv = FALSE
    /\ cookieState \in AssembleConfigs
    /\ imgElement = [src |-> NoImage, width |-> 0, height |-> 0]
    /\ closures = <<>>
    /\ canvasOutput = BlankCanvas
    /\ downloads = <<>>
    /\ lastEvent = [kind |-> "none", arg |-> 0, prev |-> "none", rep |-> FALSE,
                    error |-> "none"]
    /\ nEvents = 0
    /\ pending = <<>>
    /\ call = NoCall

AssembleNext ==
    \/ \E lib \in BOOLEAN : getCV(lib)
    \/ \E image \in Catalogue : closures = <<>> /\ ImageChanged(image)

SpecAssemble == InitAssemble /\ [][AssembleNext]_vars

(***************************************************************************)
(* The ring selection on its own: the ring raster of the default           *)
(* configuration (886 x 886) and every trace of at most MaxContours        *)
(* contours, in every order, over the areas of the raster frame, of the    *)
(* outer and the inner edge of a stroke, and of a speck.                   *)
(***************************************************************************)
RingAreas2 == {1566450, 600000, 500000, 1000}

RingRaster ==
    getScaledOutlineShape(NoCnt, DEFAULT_THICKNESS, handleWidth, DEFAULT_SIZE,
                          DEFAULT_TOLERANCE).rasterSize

RingTraces == UNION { [0..(n - 1) -> RingAreas2] : n \in 0..MaxContours }

InitRing ==
    /\ InitApp
    /\ call \in { [fn |-> "getScaledOutlineShape", areas2 |-> f, done |-> FALSE,
                   out |-> [error |-> "none", outer |-> -1, holes |-> <<>>]] :
                     f \in RingTraces }

SelectRing ==
    /\ call.fn = "getScaledOutlineShape"
    /\ ~call.done
    /\ call' = [call EXCEPT !.done = TRUE,
                            !.out = RingOutline(call.areas2, RingRaster, RingRaster)]
    /\ UNCHANGED <<cv, cookieState, imgElement, closures, canvasOutput, downloads,
                   lastEvent, nEvents, pending>>

SpecRing == InitRing /\ [][SelectRing]_vars

(***************************************************************************)
(* Selections whose rebuild fails.  generateSTL strokes the boundary on    *)
(* the ring raster with the wall width and with the handle width and takes *)
(* the two largest contours traced there; a boundary narrower than the     *)
(* stroke is filled by it, one contour is traced, contours.get of the      *)
(* missing index is undefined and getThreeVector throws a TypeError before *)
(* the scene is touched (the scene is emptied only on lines 352-355, after *)
(* all geometry is built).  updateContourSelection has assigned lastCnt    *)
(* and redrawn the canvas by then, and has no try/catch.  StripImage has a *)
(* wide subject, its default boundary, and a strip as second candidate.    *)
(***************************************************************************)
StripImage ==
    [id |-> 5, name |-> <<"s">>, width |-> 30, height |-> 20,
     traced |-> SeqToArr(<<Cnt(3900, 0), Cnt(2400, 1), Cnt(400, 4)>>)]

RingTraceOf(cnt) ==
    IF cnt.img = 5 /\ cnt.idx = 2
    THEN SeqToArr(<<600000>>)
    ELSE SeqToArr(<<600000, 500000>>)

generateSTLError(cnt) == RingOutline(RingTraceOf(cnt), RingRaster, RingRaster).error

updateContourSelectionOutcome(c, x, elem, cs) ==
    IF c.contourMap[x] # 0 /\ generateSTLError(c.contours[SelectedIndex(c, x)]) # "none"
    THEN [c EXCEPT !.lastCnt = c.contours[SelectedIndex(c, x)]]
    ELSE updateContourSelection(c, x, elem, cs)

ClickErrors(x) ==
    {generateSTLError(closures[k].contours[SelectedIndex(closures[k], x)]) :
        k \in {j \in DOMAIN closures : closures[j].contourMap[x] # 0}} \ {"none"}

CanvasClickOutcome(x) ==
    /\ render # {}
    /\ nEvents < MaxEvents
    /\ closures' = [k \in DOMAIN closures |->
                       updateContourSelectionOutcome(closures[k], x, imgElement, cookieState)]
    /\ canvasOutput' = CanvasAfterClick(closures, 1, x, imgElement, canvasOutput)
    /\ downloads' = <<>>
    /\ lastEvent' = [Event("click", x) EXCEPT
                        !.error = IF ClickErrors(x) = {} THEN "none" ELSE "TypeError"]
    /\ nEvents' = nEvents + 1
    /\ UNCHANGED <<cv, cookieState, imgElement, pending, call>>

FailImages == {StripImage} \cup {image \in Catalogue : image.id = 1}

FailNext ==
    \/ \E lib \in BOOLEAN : getCV(lib)
    \/ \E image \in FailImages : ImageChanged(image)
    \/ \E x \in Pixels : CanvasClickOutcome(x)

SpecFail == Init /\ [][FailNext]_vars

(***************************************************************************)
(* getThreeVector on its own: every contour of at most MaxPoints points    *)
(* over a few pixel coordinates, with tolerances the UI offers (.01, .15,  *)
(* .3) and one between them (.2).                                          *)
(***************************************************************************)
PointXs == {0, 1, 3, 5}
PointYs == {0, 4}
PointTolerances == {1, 15, 20, 30}

PointContours == UNION { [0..(n - 1) -> PointXs \X PointYs] : n \in 0..MaxPoints }

InitPoints ==
    /\ InitApp
    /\ call \in { [fn |-> "getThreeVector", cnt |-> f, tol |-> t, done |-> FALSE,
                   out |-> EmptyArr] : f \in PointContours, t \in PointTolerances }

FilterPoints ==
    /\ call.fn = "getThreeVector"
    /\ ~call.done
    /\ call' = [call EXCEPT !.done = TRUE,
                            !.out = getThreeVector(call.cnt, scaleF, call.tol)]
    /\ UNCHANGED <<cv, cookieState, imgElement, closures, canvasOutput, downloads,
                   lastEvent, nEvents, pending>>

SpecPoints == InitPoints /\ [][FilterPoints]_vars

(***************************************************************************)
(* Vocabulary of the properties.  The current closure is the one of the    *)
(* latest processImage call: its renderer is the one in the 3D panel, its  *)
(* lastCnt is the active boundary and the mesh of its scene is the Solid.  *)
(* A candidate is stated as in the specification, on area = area2 / 2:     *)
(* 0.1 * 0.90 * W * H < area < 0.90 * W * H.                               *)
(***************************************************************************)
Loaded == closures # <<>>
Cur == closures[Len(closures)]
Solid(c) == exporterParse(c.scene)
SolidOf(cnt, cs) == <<MergedMesh(cnt, cs)>>

PaddedArea == (imgElement.width + 20) * (imgElement.height + 20)
UnsignedArea2(cnt) == IF cnt.area2 < 0 THEN 0 - cnt.area2 ELSE cnt.area2
BelowFrameCutoff(cnt) == 10 * UnsignedArea2(cnt) < 18 * PaddedArea
AboveNoiseCutoff(cnt) == 100 * UnsignedArea2(cnt) > 18 * PaddedArea
IsCandidate(cnt) == AboveNoiseCutoff(cnt) /\ BelowFrameCutoff(cnt)
Candidates == {i \in DOMAIN Cur.contours : IsCandidate(Cur.contours[i])}
ImageLoaded == lastEvent.kind = "image"

\* The label of candidate i: its rank among the candidates in trace order.
RankOf(i) == Cardinality({j \in Candidates : j <= i})
CandidateWithLabel(l) == CHOOSE i \in Candidates : RankOf(i) = l

(***************************************************************************)
(* C1: whenever the traced boundaries of a loaded image contain at least   *)
(* one candidate, the default active boundary set by onImageLoad is a      *)
(* candidate, and no candidate has a larger unsigned area.                 *)
(***************************************************************************)
C1_DefaultIsLargestCandidate ==
    (ImageLoaded /\ Candidates # {}) =>
        /\ Cur.lastCnt.idx \in Candidates
        /\ Cur.lastCnt = Cur.contours[Cur.lastCnt.idx]
        /\ \A j \in Candidates :
              UnsignedArea2(Cur.contours[j]) <= UnsignedArea2(Cur.lastCnt)

\* A load where a frame boundary precedes two candidates and the largest
\* candidate is not the first of them.
C1_Witness ==
    /\ ImageLoaded
    /\ Cardinality(Candidates) >= 2
    /\ \E i \in DOMAIN Cur.contours :
          ~BelowFrameCutoff(Cur.contours[i]) /\ i < Cur.lastCnt.idx
    /\ \E j \in Candidates : j < Cur.lastCnt.idx

(***************************************************************************)
(* C6: after a load, contourNumMap lists exactly the candidates (both      *)
(* bounds strict) in trace order, so its k-th entry is the trace index of  *)
(* the k-th candidate and the labels are 1..N; the IndexMap holds only     *)
(* these labels, and on the cell a candidate's fine stroke is centred on   *)
(* it holds the label of the last candidate painted there.                 *)
(***************************************************************************)
C6_LabelsAreCandidatesInTraceOrder ==
    ImageLoaded =>
        LET cnm == Cur.contourNumMap
            N == Cardinality(Candidates)
        IN /\ DOMAIN cnm = 0..(N - 1)
           /\ \A k \in DOMAIN cnm : cnm[k] \in Candidates /\ RankOf(cnm[k]) = k + 1
           /\ \A x \in Pixels : Cur.contourMap[x] \in 0..N
           /\ \A i \in Candidates :
                 LET last == CHOOSE j \in Candidates :
                                /\ Cur.contours[j].pos = Cur.contours[i].pos
                                /\ \A m \in Candidates :
                                      Cur.contours[m].pos = Cur.contours[i].pos => m <= j
                 IN Cur.contourMap[Cur.contours[i].pos] = RankOf(last)

\* A load whose trace has a boundary exactly on the noise cutoff, one
\* exactly on the frame cutoff, and a candidate after a non-candidate.
C6_Witness ==
    /\ ImageLoaded
    /\ \E i \in DOMAIN Cur.contours :
          100 * UnsignedArea2(Cur.contours[i]) = 18 * PaddedArea
    /\ \E i \in DOMAIN Cur.contours :
          10 * UnsignedArea2(Cur.contours[i]) = 18 * PaddedArea
    /\ \E i \in Candidates : RankOf(i) # i + 1

(***************************************************************************)
(* C7: when no traced boundary is a candidate, the default active boundary *)
(* is empty and there is no Solid; no boundary outside the candidate set   *)
(* becomes active.                                                         *)
(***************************************************************************)
C7_NoCandidateNoBoundary ==
    (ImageLoaded /\ Candidates = {}) =>
        /\ Cur.lastCnt = NoCnt
        /\ Solid(Cur) = <<>>

(***************************************************************************)
(* C2: after a parameter change handled while a boundary is active, the    *)
(* Solid in the scene is the one determined by the active boundary and the *)
(* new configuration.                                                      *)
(***************************************************************************)
C2_RebuiltOnParameterChange ==
    (lastEvent.kind = "config" /\ Loaded) =>
        Solid(Cur) = SolidOf(Cur.lastCnt, cookieState)

(***************************************************************************)
(* C3: an export request makes the current closure rebuild its scene from  *)
(* its active boundary and the configuration of that moment before it      *)
(* serializes, so the payload it hands over and the Solid left in the      *)
(* scene are the ones of the active boundary and the current               *)
(* configuration; every listener that runs serializes a fresh build of its *)
(* own boundary with the current configuration.                            *)
(***************************************************************************)
C3_ExportSerializesFreshBuild ==
    (lastEvent.kind = "export" /\ Loaded) =>
        /\ downloads[Len(closures)].textToWrite = SolidOf(Cur.lastCnt, cookieState)
        /\ Solid(Cur) = SolidOf(Cur.lastCnt, cookieState)
        /\ \A k \in DOMAIN closures :
              downloads[k].textToWrite = SolidOf(closures[k].lastCnt, cookieState)

\* load, then a thickness change (which rebuilds nothing), then export.
C3_Witness ==
    /\ lastEvent.kind = "export"
    /\ lastEvent.prev = "config"
    /\ nEvents = 3
    /\ Len(closures) = 1
    /\ cookieState.thickness # DEFAULT_THICKNESS

(***************************************************************************)
(* C4: one export request produces exactly one payload with one file name, *)
(* built from the active boundary and the file name of the most recently   *)
(* loaded image.                                                           *)
(***************************************************************************)
C4_OneExportOnePayload ==
    (lastEvent.kind = "export" /\ Loaded) =>
        /\ Len(downloads) = 1
        /\ downloads[1].textToWrite = SolidOf(Cur.lastCnt, cookieState)
        /\ downloads[1].download = Sanitize(cookieState.saveFileName) \o Stl

(***************************************************************************)
(* C5: a canvas click is looked up only in the IndexMap of the most        *)
(* recently loaded image: the displayed raster, the active boundary and    *)
(* the Solid after the click are what the listener of the current closure  *)
(* alone produces.                                                         *)
(***************************************************************************)
C5_ClickConsultsOnlyCurrentMap ==
    [][(lastEvent'.kind = "click" /\ Loaded) =>
          /\ canvasOutput' =
                updateContourSelectionShown(Cur, lastEvent'.arg, imgElement, canvasOutput)
          /\ closures'[Len(closures)] =
                updateContourSelection(Cur, lastEvent'.arg, imgElement, cookieState)]_vars

(***************************************************************************)
(* C8: a selection at a cell whose label in the current IndexMap is 0      *)
(* changes neither the active boundary nor the Solid nor the displayed     *)
(* raster.                                                                 *)
(***************************************************************************)
C8_LabelZeroIsNoOp ==
    [][(lastEvent'.kind = "click" /\ Loaded /\ Cur.contourMap[lastEvent'.arg] = 0) =>
          /\ closures'[Len(closures)].lastCnt = Cur.lastCnt
          /\ closures'[Len(closures)].scene = Cur.scene
          /\ canvasOutput' = canvasOutput]_vars

(***************************************************************************)
(* C9: a selection at a cell whose label in the current IndexMap is L # 0  *)
(* has L in 1..N, makes the L-th candidate in trace order the active       *)
(* boundary, and leaves in the scene the Solid built in full from that     *)
(* boundary and the current configuration.                                 *)
(***************************************************************************)
C9_SelectionResolvesLabel ==
    [][(lastEvent'.kind = "click" /\ Loaded /\ Cur.contourMap[lastEvent'.arg] # 0) =>
          LET L == Cur.contourMap[lastEvent'.arg]
              after == closures'[Len(closures)]
          IN /\ L \in 1..Cardinality(Candidates)
             /\ after.lastCnt = Cur.contours[CandidateWithLabel(L)]
             /\ after.scene = <<MergedMesh(after.lastCnt, cookieState), PointLight>>]_vars

\* A selection of a labelled cell that resolved to a boundary other than
\* the default one and whose trace index is not its label minus one.
C9_Witness ==
    /\ lastEvent.kind = "click"
    /\ Loaded
    /\ Cur.contourMap[lastEvent.arg] # 0
    /\ Cur.lastCnt.idx # Cur.contourMap[lastEvent.arg] - 1
    /\ \E j \in Candidates :
          UnsignedArea2(Cur.contours[j]) > UnsignedArea2(Cur.lastCnt)

(***************************************************************************)
(* C10: selecting the same labelled cell a second time in a row, the       *)
(* configuration unchanged in between, leaves the active boundary and the  *)
(* Solid (the whole scene) as the first selection left them.               *)
(***************************************************************************)
C10_SelectionIdempotent ==
    [][(/\ lastEvent.kind = "click"
        /\ lastEvent'.kind = "click"
        /\ lastEvent'.arg = lastEvent.arg
        /\ Loaded
        /\ Cur.contourMap[lastEvent.arg] # 0) =>
          /\ closures'[Len(closures)].lastCnt = Cur.lastCnt
          /\ closures'[Len(closures)].scene = Cur.scene]_vars

\* The second of two selections in a row of one labelled cell, which is
\* not the cell of the default boundary.
C10_Witness ==
    /\ lastEvent.kind = "click"
    /\ lastEvent.rep
    /\ Loaded
    /\ Cur.contourMap[lastEvent.arg] # 0
    /\ \E j \in Candidates :
          UnsignedArea2(Cur.contours[j]) > UnsignedArea2(Cur.lastCnt)

(***************************************************************************)
(* C11: an export requested while there is no Solid (no image was loaded,  *)
(* or the loaded image has no candidate) raises ExportRefused and hands no *)
(* payload and no file name to the host.                                   *)
(***************************************************************************)
C11_ExportRefusedWhenEmpty ==
    (lastEvent.kind = "export" /\ (~Loaded \/ Candidates = {})) =>
        /\ lastEvent.error = "ExportRefused"
        /\ downloads = <<>>

(***************************************************************************)
(* C12: whatever the order of the trace, when at least two contours of the *)
(* ring raster lie below the background cutoff, the outer outline is a     *)
(* contour of largest area below the cutoff, the hole is a contour of      *)
(* largest area among the others below the cutoff, and the two are         *)
(* different contours.                                                     *)
(***************************************************************************)
RingCalled == call.fn = "getScaledOutlineShape" /\ call.done
BelowRingCutoff(a2) == 100 * a2 < 190 * (RingRaster * RingRaster)
RingUsable == {i \in DOMAIN call.areas2 : BelowRingCutoff(call.areas2[i])}

C12_OuterLargestInnerSecond ==
    (RingCalled /\ Cardinality(RingUsable) >= 2) =>
        LET outer == call.out.outer
            inner == call.out.holes[1]
        IN /\ call.out.error = "none"
           /\ Len(call.out.holes) = 1
           /\ outer \in RingUsable
           /\ \A j \in RingUsable : call.areas2[j] <= call.areas2[outer]
           /\ inner \in RingUsable \ {outer}
           /\ \A j \in RingUsable \ {outer} : call.areas2[j] <= call.areas2[inner]

(***************************************************************************)
(* C13: when fewer than two contours of the ring raster lie below the      *)
(* background cutoff, the generator signals ring-degenerate, the outline   *)
(* has no hole, and no other error is raised.                              *)
(***************************************************************************)
C13_DegenerateRingIsHoleless ==
    (RingCalled /\ Cardinality(RingUsable) < 2) =>
        /\ call.out.error = "RingDegenerate"
        /\ call.out.holes = <<>>

(***************************************************************************)
(* Vocabulary for getThreeVector: the scaled point of index i, "differs by *)
(* more than the tolerance in x or in y", and the indices kept among the   *)
(* first i points when the first point is kept and every later point is    *)
(* compared with the kept point of largest index before it.                *)
(***************************************************************************)
PointsFiltered == call.fn = "getThreeVector" /\ call.done
Scaled(i) == <<10 * call.cnt[i][1], 10 * call.cnt[i][2]>>
Far(p, q, t) == Abs(p[1] - q[1]) > t \/ Abs(p[2] - q[2]) > t
MaxOf(S) == CHOOSE m \in S : \A k \in S : k <= m

RECURSIVE KeptAmong(_)
KeptAmong(i) ==
    IF i = 0 THEN {}
    ELSE LET K == KeptAmong(i - 1)
         IN IF K = {} \/ Far(Scaled(i - 1), Scaled(MaxOf(K)), call.tol)
            THEN K \cup {i - 1}
            ELSE K

C15_KeptPointsAreTheFarOnes ==
    PointsFiltered =>
        LET n == ArrLen(call.cnt)
            K == KeptAmong(n)
            out == call.out
        IN /\ DOMAIN out = 0..(Cardinality(K) - 1)
           /\ \A k \in K : out[Cardinality({j \in K : j < k})] = Scaled(k)
           /\ n > 0 => out[0] = Scaled(0)
           /\ \A r \in 1..(ArrLen(out) - 1) : Far(out[r - 1], out[r], call.tol)

\* A contour with a dropped point between two kept ones, a point kept for
\* its y alone, and a point close to its predecessor but far from the last
\* kept point.
C15_Witness ==
    /\ PointsFiltered
    /\ \E i, j, k \in DOMAIN call.cnt :
          i < j /\ j < k /\ i \in KeptAmong(k + 1) /\ j \notin KeptAmong(k + 1)
          /\ k \in KeptAmong(k + 1)
          /\ ~Far(Scaled(k), Scaled(j), call.tol)
    /\ \E k \in KeptAmong(ArrLen(call.cnt)) \ {0} :
          Abs(Scaled(k)[1] - Scaled(MaxOf(KeptAmong(k)))[1]) <= call.tol

(***************************************************************************)
(* C16: the export file name is the base file name with every character    *)
(* outside [A-Za-z0-9_-] replaced by one underscore, position by position  *)
(* and with the length kept, followed by ".stl"; the base "A/B..c" gives   *)
(* "A_B__c.stl"; sanitizing the sanitized name changes nothing.            *)
(***************************************************************************)
Lower == {"a","b","c","d","e","f","g","h","i","j","k","l","m",
          "n","o","p","q","r","s","t","u","v","w","x","y","z"}
Upper == {"A","B","C","D","E","F","G","H","I","J","K","L","M",
          "N","O","P","Q","R","S","T","U","V","W","X","Y","Z"}
Digits == {"0","1","2","3","4","5","6","7","8","9"}
Allowed(ch) == ch \in Upper \cup Lower \cup Digits \cup {"_", "-"}
Exported == lastEvent.kind = "export" /\ Loaded
ExportName == downloads[Len(closures)].download

C16_ExportNameSanitized ==
    Exported =>
        LET base == Cur.saveFilename
            n == Len(base)
            stem == SubSeq(ExportName, 1, n)
        IN /\ Len(ExportName) = n + 4
           /\ \A k \in 1..n : stem[k] = IF Allowed(base[k]) THEN base[k] ELSE "_"
           /\ SubSeq(ExportName, n + 1, n + 4) = <<".", "s", "t", "l">>
           /\ Sanitize(stem) = stem
           /\ base = ExampleBase =>
                 ExportName = <<"A", "_", "B", "_", "_", "c", ".", "s", "t", "l">>

\* The export of a file whose base name is "A/B..c".
C16_Witness ==
    /\ Exported
    /\ Cur.saveFilename = ExampleBase
    /\ ExportName # ExampleBase \o <<".", "s", "t", "l">>

(***************************************************************************)
(* Vocabulary for the Solid: thickness is in 0.1 mm and depth in mm, while *)
(* the stroke of an outline is in 0.005 mm (lineThickness of a stroke of   *)
(* w mm is 200 * w), bevel sizes are in 0.05 mm and extrusion depths and   *)
(* bevel thicknesses in 0.1 mm.                                            *)
(***************************************************************************)
Built == Loaded /\ Len(Solid(Cur)) = 1
Pieces == Solid(Cur)[1].pieces
HandlePiece == Pieces[Len(Pieces)]
Straight(piece, depthTenths) ==
    /\ ~piece.settings.bevelEnabled
    /\ piece.settings.depth = depthTenths
StrokeOf(piece) == piece.shape.lineThickness

(***************************************************************************)
(* C17: without the bevel the Solid merges exactly two extrusions, the     *)
(* wall outline (stroke wallThickness/2) extruded straight to the full     *)
(* depth, and the handle.  With the bevel it merges exactly three: the     *)
(* straight base of height depth/2 from the relief outline (stroke         *)
(* wallThickness*3/2), the bevelled cap (bevel thickness depth/2, bevel    *)
(* size wallThickness/2) from the wallThickness/2 outline, and the handle. *)
(***************************************************************************)
C17_TwoOrThreeExtrusions ==
    Built =>
        LET T == cookieState.thickness
            D == cookieState.depth
        IN /\ \A k \in 1..Len(Pieces) : Pieces[k].shape.cnt = Cur.lastCnt
           /\ IF ~cookieState.cutterBevel
              THEN /\ Len(Pieces) = 2
                   /\ StrokeOf(Pieces[1]) = 10 * T
                   /\ Straight(Pieces[1], 10 * D)
              ELSE /\ Len(Pieces) = 3
                   /\ StrokeOf(Pieces[1]) = 30 * T
                   /\ Straight(Pieces[1], 5 * D)
                   /\ StrokeOf(Pieces[2]) = 10 * T
                   /\ Pieces[2].settings.bevelEnabled
                   /\ Pieces[2].settings.bevelThickness = 5 * D
                   /\ Pieces[2].settings.bevelSize = T
                   /\ Pieces[2].settings.depth = 0
           /\ HandlePiece.settings.depth = 20
           /\ StrokeOf(HandlePiece) = 840

\* A Solid built with the bevel on and a wall that is not the default one.
C17_Witness ==
    /\ Built
    /\ cookieState.cutterBevel
    /\ cookieState.thickness # DEFAULT_THICKNESS
    /\ Len(Pieces) = 3

(***************************************************************************)
(* C18: the handle outline has the stroke 4.2 and is extruded to the       *)
(* thickness 2 for every wallThickness and depth, with the target size and *)
(* the raster margin of the wall outline; the handle piece built with any  *)
(* other wallThickness is the same piece.                                  *)
(***************************************************************************)
C18_HandleIndependentOfWall ==
    Built =>
        /\ StrokeOf(HandlePiece) = 840
        /\ HandlePiece.settings.depth = 20
        /\ HandlePiece.shape.maxDesiredOut = Pieces[1].shape.maxDesiredOut
        /\ HandlePiece.shape.maxDesiredOut = cookieState.size
        /\ HandlePiece.shape.walloffset = Pieces[1].shape.walloffset
        /\ HandlePiece.shape.rasterSize = Pieces[1].shape.rasterSize
        /\ \A t \in AssembleThickness :
              LET other == MergedMesh(Cur.lastCnt, [cookieState EXCEPT !.thickness = t])
              IN other.pieces[Len(other.pieces)] = HandlePiece

\* A Solid whose wall is neither the default one nor as wide as the handle.
C18_Witness ==
    /\ Built
    /\ cookieState.thickness # DEFAULT_THICKNESS
    /\ cookieState.depth # DEFAULT_DEPTH
    /\ StrokeOf(Pieces[1]) # StrokeOf(HandlePiece)

(***************************************************************************)
(* C19: a frame of the redraw loop changes neither the closures (active    *)
(* boundary, IndexMap, candidate list, scene) nor the configuration nor    *)
(* the displayed raster, and a step that changes the scene or the active   *)
(* boundary of a closure, or adds a closure, is the handling of an image   *)
(* load, a selection or an export request.                                 *)
(***************************************************************************)
SceneOrBoundaryChanges ==
    \/ Len(closures') # Len(closures)
    \/ \E k \in DOMAIN closures :
          \/ closures'[k].scene # closures[k].scene
          \/ closures'[k].lastCnt # closures[k].lastCnt

C19_FrameOnlyRepaints ==
    [][/\ lastEvent'.kind = "frame" =>
            /\ closures' = closures
            /\ cookieState' = cookieState
            /\ canvasOutput' = canvasOutput
            /\ imgElement' = imgElement
       /\ SceneOrBoundaryChanges => lastEvent'.kind \in {"image", "click", "export"}]_vars

\* A frame painted after a parameter change, while the scene still holds
\* the Solid of the old configuration.
C19_Witness ==
    /\ lastEvent.kind = "frame"
    /\ lastEvent.prev = "config"
    /\ Loaded
    /\ Solid(Cur) # SolidOf(Cur.lastCnt, cookieState)

(***************************************************************************)
(* C20: the image-changed event of a file selection has been dispatched    *)
(* once if its image has finished decoding and not at all otherwise, so    *)
(* there are as many processImage calls as decoded images; the dimensions  *)
(* in the dispatched event, and in the configuration after the dispatch,   *)
(* are the decoded ones.                                                   *)
(***************************************************************************)
Decoded(p) == p.state = "loaded"

C20_DispatchedOnceAfterDecode ==
    /\ \A j \in DOMAIN pending :
          LET p == pending[j]
          IN IF Decoded(p)
             THEN /\ p.dispatched = 1
                  /\ p.detail.imageWidth = p.file.width
                  /\ p.detail.imageHeight = p.file.height
             ELSE p.dispatched = 0
    /\ Len(closures) = Cardinality({j \in DOMAIN pending : Decoded(pending[j])})
    /\ lastEvent.kind = "image" =>
          \E j \in DOMAIN pending :
              /\ Decoded(pending[j])
              /\ pending[j].file.id = cookieState.imageSrc
              /\ cookieState.imageWidth = pending[j].file.width
              /\ cookieState.imageHeight = pending[j].file.height

\* Two selections, the second decoded and dispatched with dimensions that
\* are not the ones read before decoding, the first still not decoded.
C20_Witness ==
    /\ Len(pending) = 2
    /\ ~Decoded(pending[1])
    /\ Decoded(pending[2])
    /\ pending[2].file.width # 0
    /\ pending[2].file.id # pending[1].file.id
    /\ lastEvent.kind = "image"

(***************************************************************************)
(* C21: a call of handleImageChange, handleSliderChange or handleChange    *)
(* with a malformed event (no event, no target, or, for the file input,    *)
(* no file list) throws at once: the step records an error, creates no     *)
(* Image and dispatches nothing, so the config, every closure (active      *)
(* boundary and Solid), the element and the canvas are as before.          *)
(***************************************************************************)
MalformedCall(c) ==
    /\ c # NoCall
    /\ \/ ~c.ev.e
       \/ ~c.ev.target
       \/ c.fn = "handleImageChange" /\ ~c.ev.files

C21_MalformedEventThrowsFirst ==
    [][(call' # call /\ MalformedCall(call')) =>
          /\ lastEvent'.kind = "throw"
          /\ lastEvent'.arg = call'.fn
          /\ lastEvent'.error # "none"
          /\ UNCHANGED <<cookieState, closures, pending, imgElement, canvasOutput>>]_vars

C21_Witness ==
    /\ Loaded
    /\ MalformedCall(call)
    /\ call.fn = "handleChange"
    /\ call.ev.e
    /\ lastEvent.kind = "throw"
    /\ lastEvent.arg = "handleChange"

(***************************************************************************)
(* C22: when an image has been loaded, the element's width is 1 if the     *)
(* event's width was 0 and the event's width otherwise, the same for the   *)
(* height, and the rasters of the classification (the padded frame whose   *)
(* area sets the cutoff of the displayed candidates) have these sizes.     *)
(***************************************************************************)
C22_ZeroDimensionBecomesOne ==
    ImageLoaded =>
        LET w == IF cookieState.imageWidth = 0 THEN 1 ELSE cookieState.imageWidth
            h == IF cookieState.imageHeight = 0 THEN 1 ELSE cookieState.imageHeight
        IN /\ imgElement.width = w
           /\ imgElement.height = h
           /\ canvasOutput.blue =
                 BlueOutlined(Cur.contours,
                              boundaryCountourAreaCutoff(w + 2 * offset, h + 2 * offset))

C22_Witness ==
    /\ ImageLoaded
    /\ cookieState.imageWidth = 0
    /\ cookieState.imageHeight = 20
    /\ imgElement.width = 1
    /\ imgElement.height = 20

(***************************************************************************)
(* C23: the bevel option is user-selectable.  The selects of cookie-inputs *)
(* and the slider of cookie-size are independent controls that accept a    *)
(* change whenever they are rendered, so the option is selectable exactly  *)
(* when, with the inputs rendered, some change of these controls leaves    *)
(* cutterBevel true in the config.                                         *)
(***************************************************************************)
UIChange ==
    \/ \E changeType \in RenderedChangeTypes :
          \E v \in OptionsOf(changeType) : HandleChange(changeType, v)
    \/ \E index \in SliderOptions : HandleSliderChange(index)

C23_BevelSelectable ==
    (cv /\ nEvents < MaxEvents) => ENABLED (UIChange /\ cookieState'.cutterBevel)

(* What holds instead: no handler reachable from the page sets the flag.   *)
C23_BevelNeverSet == ~cookieState.cutterBevel

(***************************************************************************)
(* C24: the IndexMap of a loaded image is the result of three passes over  *)
(* the candidates in trace order with stroke widths 30, 10 and 3, every    *)
(* candidate painted in every pass with its first-pass label (its rank):   *)
(* a cell no stroke covers holds 0, and any other cell holds the rank of   *)
(* the candidate whose stroke covered it last, a stroke of a later pass    *)
(* being later than every stroke of an earlier one.                        *)
(***************************************************************************)
PassWidths == <<30, 10, 3>>

Covers(i, k, x) == Abs(x - Cur.contours[i].pos) <= StrokeRadius(PassWidths[k])

Strokes(x) == {s \in (1..3) \X Candidates : Covers(s[2], s[1], x)}

NotBefore(s, t) == s[1] > t[1] \/ (s[1] = t[1] /\ s[2] >= t[2])

C24_ThreePassesSameLabels ==
    ImageLoaded =>
        \A x \in Pixels :
            IF Strokes(x) = {}
            THEN Cur.contourMap[x] = 0
            ELSE LET last == CHOOSE s \in Strokes(x) : \A t \in Strokes(x) : NotBefore(s, t)
                 IN Cur.contourMap[x] = RankOf(last[2])

\* A load where the fine stroke of a candidate keeps a cell that the wide
\* stroke of a later candidate had covered, the labels differing from the
\* trace indices.
C24_Witness ==
    /\ ImageLoaded
    /\ \E x \in Pixels : \E i, j \in Candidates :
          /\ i < j
          /\ RankOf(i) # i + 1
          /\ Covers(j, 1, x) /\ ~Covers(j, 2, x)
          /\ Covers(i, 3, x)
          /\ Cur.contourMap[x] = RankOf(i)

(***************************************************************************)
(* C25: nothing is handled before OpenCV is loaded.  cv becomes non-null   *)
(* only in a load callback with a truthy library; a callback with a falsy  *)
(* library records an error and leaves cv null; a step taken while cv is   *)
(* null is a load callback and changes neither the config, the closures    *)
(* of processImage, the pending images, the element nor the canvas.        *)
(***************************************************************************)
C25_NothingHandledBeforeOpenCV ==
    [][/\ (~cv /\ cv') => (lastEvent'.kind = "getCV" /\ lastEvent'.arg = 1)
       /\ (lastEvent'.kind = "getCV" /\ lastEvent'.arg = 0) =>
             (~cv' /\ lastEvent'.error = "couldn't load the opencv library")
       /\ ~cv => /\ lastEvent'.kind = "getCV"
                 /\ UNCHANGED <<cookieState, closures, pending, imgElement,
                                canvasOutput, downloads, nEvents>>]_vars

\* The load callback has run with a falsy library: nothing is rendered.
C25_Witness ==
    /\ ~cv
    /\ render = {}
    /\ lastEvent.kind = "getCV"
    /\ lastEvent.arg = 0
    /\ lastEvent.error # "none"

(***************************************************************************)
(* C26: the contours classified for an image-changed event are traced on   *)
(* the picture of the event's source: after the handler, every contour of  *)
(* the newest closure and the raster on the canvas come from the image     *)
(* named by imageSrc in the config, not from an empty raster or from the   *)
(* picture of an earlier event.                                            *)
(***************************************************************************)
C26_ReadsTheEventsImage ==
    ImageLoaded =>
        /\ \A i \in DOMAIN Cur.contours : Cur.contours[i].img = cookieState.imageSrc
        /\ \A i \in DOMAIN canvasOutput.of : canvasOutput.of[i].img = cookieState.imageSrc

(***************************************************************************)
(* C27: after every handler, whether it returned or threw, the Solid of    *)
(* each processImage closure is the one built from its active boundary:    *)
(* the scene holds one merged mesh and every piece of it was stroked from  *)
(* lastCnt.                                                                *)
(***************************************************************************)
SolidFromActive(c) ==
    /\ Len(Solid(c)) = 1
    /\ \A p \in DOMAIN Solid(c)[1].pieces : Solid(c)[1].pieces[p].shape.cnt = c.lastCnt

====
